---- MODULE Spec2Model ----
(***************************************************************************)
(* AppleNotesSync server: the note body decoder (notes_reader.py), the     *)
(* read queries over the Notes store, and the osascript writer             *)
(* (notes_writer.py).                                                      *)
(*                                                                         *)
(* Conventions.  A bytes object is a sequence of integers 0..255; a str is *)
(* a sequence of Unicode code points.  Python positions are 0-based, so    *)
(* data[pos] is written data[pos + 1].  A nullable SQL column or Python    *)
(* Optional holds NULL (the empty tuple) or Some(v) (a one-element tuple). *)
(***************************************************************************)
EXTENDS Integers, Sequences, FiniteSets, TLC

NULL == <<>>
Some(v) == <<v>>
Val(c) == c[1]

Min(a, b) == IF a < b THEN a ELSE b

(***************************************************************************)
(* Code points and bytes the code names or the inputs below are built of.  *)
(***************************************************************************)
LF == 10
SPACE == 32
LINE_SEPARATOR == 8232        \* U+2028
OBJECT_REPLACEMENT == 65532   \* U+FFFC
REPLACEMENT_CHAR == 65533     \* U+FFFD, what errors="replace" inserts

(***************************************************************************)
(* str.isspace(), which str.strip() and the regex class \s both use.       *)
(***************************************************************************)
IsSpace(c) ==
    \/ c \in 9..13
    \/ c \in 28..32
    \/ c \in {133, 160, 5760, 8232, 8233, 8239, 8287, 12288}
    \/ c \in 8192..8202

(***************************************************************************)
(* The regex class \w below U+00C0: alphanumerics and the underscore.  The *)
(* class's explicit range covers U+00C0..U+FFFF whatever the character is. *)
(***************************************************************************)
IsWordBelowC0(c) ==
    \/ c \in 48..57
    \/ c \in 65..90
    \/ c \in 97..122
    \/ c = 95
    \/ c \in {170, 178, 179, 181, 185, 186, 188, 189, 190}

\* . , ; : ! ? ' " ( ) -
IsListedPunctuation(c) == c \in {46, 44, 59, 58, 33, 63, 39, 34, 40, 41, 45}

(***************************************************************************)
(* UTF-8 as bytes.decode reads it (well-formed sequences of the Unicode    *)
(* standard, table 3-7).  Utf8Need is the length a lead byte announces, 0  *)
(* for a byte that cannot lead.                                            *)
(***************************************************************************)
Utf8Need(b) ==
    IF b < 128 THEN 1
    ELSE IF b \in 194..223 THEN 2
    ELSE IF b \in 224..239 THEN 3
    ELSE IF b \in 240..244 THEN 4
    ELSE 0

\* The range the second byte of a sequence led by b must lie in.
Utf8Second(b) ==
    IF b = 224 THEN 160..191
    ELSE IF b = 237 THEN 128..159
    ELSE IF b = 240 THEN 144..191
    ELSE IF b = 244 THEN 128..143
    ELSE 128..191

\* How many bytes from position i (1-based) form a prefix of a well-formed
\* sequence: Utf8Need of the lead when the whole sequence is there, 0 when
\* the byte at i cannot lead.
Utf8Prefix(bytes, i) ==
    LET b == bytes[i]
        need == Utf8Need(b)
        Follows(k, range) == i + k <= Len(bytes) /\ bytes[i + k] \in range
    IN  IF need = 0 THEN 0
        ELSE IF need = 1 \/ ~Follows(1, Utf8Second(b)) THEN 1
        ELSE IF need = 2 \/ ~Follows(2, 128..191) THEN 2
        ELSE IF need = 3 \/ ~Follows(3, 128..191) THEN 3
        ELSE 4

Utf8CodePoint(bytes, i, n) ==
    IF n = 1 THEN bytes[i]
    ELSE IF n = 2 THEN (bytes[i] % 32) * 64 + (bytes[i + 1] % 64)
    ELSE IF n = 3 THEN (bytes[i] % 16) * 4096 + (bytes[i + 1] % 64) * 64
                       + (bytes[i + 2] % 64)
    ELSE (bytes[i] % 8) * 262144 + (bytes[i + 1] % 64) * 4096
         + (bytes[i + 2] % 64) * 64 + (bytes[i + 3] % 64)

Indices(s) == [i \in 1..Len(s) |-> i]

\* The positions a left-to-right decoder stands at: every byte but those a
\* preceding lead byte has taken as part of its sequence.
Utf8Taken(bytes, j) ==
    \E i \in (IF j > 3 THEN j - 3 ELSE 1)..(j - 1) : j < i + Utf8Prefix(bytes, i)

Utf8Starts(bytes) ==
    SelectSeq(Indices(bytes), LAMBDA j : ~Utf8Taken(bytes, j))

Utf8WellFormedAt(bytes, i) ==
    Utf8Need(bytes[i]) # 0 /\ Utf8Prefix(bytes, i) = Utf8Need(bytes[i])

\* bytes.decode("utf-8"): [ok |-> FALSE] stands for UnicodeDecodeError.
decode_utf8(bytes) ==
    LET starts == Utf8Starts(bytes)
    IN  IF \A k \in 1..Len(starts) : Utf8WellFormedAt(bytes, starts[k])
        THEN [ok |-> TRUE,
              str |-> [k \in 1..Len(starts) |->
                          Utf8CodePoint(bytes, starts[k],
                                        Utf8Need(bytes[starts[k]]))]]
        ELSE [ok |-> FALSE, str |-> <<>>]

\* bytes.decode("utf-8", errors="replace"): every maximal ill-formed
\* subpart becomes one U+FFFD.
decode_utf8_replace(bytes) ==
    LET starts == Utf8Starts(bytes)
    IN  [k \in 1..Len(starts) |->
            IF Utf8WellFormedAt(bytes, starts[k])
            THEN Utf8CodePoint(bytes, starts[k], Utf8Need(bytes[starts[k]]))
            ELSE REPLACEMENT_CHAR]

(***************************************************************************)
(* str methods the decoder uses.                                           *)
(***************************************************************************)
\* s.replace(old, new), old and new one character each
replace_char(s, old, new) ==
    [i \in 1..Len(s) |-> IF s[i] = old THEN new ELSE s[i]]

\* s.replace(old, ""), old one character
remove_char(s, old) == SelectSeq(s, LAMBDA c : c # old)

\* s.strip()
strip(s) ==
    LET kept == {i \in 1..Len(s) : ~IsSpace(s[i])}
    IN  IF kept = {} THEN <<>>
        ELSE SubSeq(s, CHOOSE i \in kept : \A j \in kept : i <= j,
                       CHOOSE i \in kept : \A j \in kept : i >= j)

RECURSIVE str_join(_, _)
\* sep.join(parts)
str_join(sep, parts) ==
    IF parts = <<>> THEN <<>>
    ELSE IF Len(parts) = 1 THEN parts[1]
    ELSE parts[1] \o sep \o str_join(sep, Tail(parts))

(***************************************************************************)
(* Decompression.  The libraries are not modelled bit by bit: a stored     *)
(* blob is [fmt, payload], fmt telling which library accepts it ("gzip",   *)
(* "zlib") or that neither does ("raw", payload = the bytes themselves).   *)
(* gzip.decompress returns b"" for empty input; zlib.decompress raises.    *)
(***************************************************************************)
gzip_decompress(blob) ==
    IF blob.fmt = "gzip" THEN [ok |-> TRUE, bytes |-> blob.payload]
    ELSE IF blob.fmt = "raw" /\ blob.payload = <<>>
    THEN [ok |-> TRUE, bytes |-> <<>>]
    ELSE [ok |-> FALSE, bytes |-> <<>>]

zlib_decompress(blob) ==
    IF blob.fmt = "zlib" THEN [ok |-> TRUE, bytes |-> blob.payload]
    ELSE [ok |-> FALSE, bytes |-> <<>>]

RECURSIVE Concat(_)
\* The sequences of seqs joined end to end.
Concat(seqs) == IF seqs = <<>> THEN <<>> ELSE Head(seqs) \o Concat(Tail(seqs))

(***************************************************************************)
(* Wire-format reader.                                                     *)
(***************************************************************************)
\* Python integers are unbounded.  A value of 2^28 or more is held as its
\* low 28 bits plus 2^28: tag & 7 stays exact, and a field number or a
\* length that large stays larger than any the buffers here can match.
VarintCap == 2 ^ 28

\* (b & 0x7F) with the shift left out: every byte of a varint lands on the
\* low seven bits.
payload_unshifted(b, shift) == b % 128

\* (b & 0x7F) << shift
ShiftedPayload(b, shift) ==
    IF b % 128 = 0 THEN 0
    ELSE IF shift >= 28 THEN VarintCap
    ELSE (b % 128) * 2 ^ shift

\* result | payload, the payload's bits lying above those of result
OrInto(result, payload) ==
    IF result + payload >= VarintCap
    THEN VarintCap + ((result + payload) % VarintCap)
    ELSE result + payload

RECURSIVE read_varint_loop(_, _, _, _)
read_varint_loop(data, pos, result, shift) ==
    IF pos < Len(data)
    THEN LET b == data[pos + 1]
             r == OrInto(result, ShiftedPayload(b, shift))
         IN IF b < 128
            THEN [value |-> r, pos |-> pos + 1]
            ELSE read_varint_loop(data, pos + 1, r, shift + 7)
    ELSE [value |-> result, pos |-> pos]

\* _read_varint with the break placed before pos += 1: the byte that ends a
\* varint is read and not consumed.
read_varint_break_first(data, pos) ==
    LET v == read_varint_loop(data, pos, 0, 0)
    IN  IF v.pos > pos /\ data[v.pos] < 128
        THEN [value |-> v.value, pos |-> v.pos - 1]
        ELSE v

_read_varint(data, pos) == read_varint_loop(data, pos, 0, 0)

\* fields.setdefault(field_number, []).append(value)
dict_append(fields, field_number, value) ==
    IF field_number \in DOMAIN fields
    THEN [fields EXCEPT ![field_number] = Append(@, value)]
    ELSE [k \in DOMAIN fields \cup {field_number} |->
             IF k = field_number THEN <<value>> ELSE fields[k]]

EmptyDict == [k \in {} |-> <<>>]

\* One pass through the body of the while loop of _parse_protobuf, entered
\* with pos < len(data): the cursor and mapping it leaves, and whether it
\* left by break.
parse_entry(data, pos, fields) ==
    LET tag == _read_varint(data, pos)
        field_number == tag.value \div 8
        wire_type == tag.value % 8
    IN  IF wire_type = 0
        THEN [pos |-> _read_varint(data, tag.pos).pos, fields |-> fields,
              brk |-> FALSE]
        ELSE IF wire_type = 2
        THEN LET length == _read_varint(data, tag.pos)
             IN IF length.pos + length.value > Len(data)
                THEN [pos |-> length.pos, fields |-> fields, brk |-> TRUE]
                ELSE [pos |-> length.pos + length.value,
                      fields |-> dict_append(fields, field_number,
                                     SubSeq(data, length.pos + 1,
                                            length.pos + length.value)),
                      brk |-> FALSE]
        ELSE IF wire_type = 5
        THEN [pos |-> tag.pos + 4, fields |-> fields, brk |-> FALSE]
        ELSE IF wire_type = 1
        THEN [pos |-> tag.pos + 8, fields |-> fields, brk |-> FALSE]
        ELSE [pos |-> tag.pos, fields |-> fields, brk |-> TRUE]

\* The whole of _parse_protobuf as a function of its argument: the loop run
\* from (pos, fields) to its exit.
RECURSIVE parse_loop(_, _, _)
parse_loop(data, pos, fields) ==
    IF pos < Len(data)
    THEN LET e == parse_entry(data, pos, fields)
         IN IF e.brk THEN e.fields ELSE parse_loop(data, e.pos, e.fields)
    ELSE fields

_parse_protobuf(data) == parse_loop(data, 0, EmptyDict)

(***************************************************************************)
(* Fallback text scanner.                                                  *)
(***************************************************************************)
\* The class with \s left out.
class_without_whitespace(c) ==
    \/ c \in 192..65535
    \/ IsWordBelowC0(c)
    \/ IsListedPunctuation(c)

\* The regex class [\w\s.,;:!?\'\"()\-À-￿].  Above U+FFFF only \w could
\* match; no input below holds a code point that high.
InClass(c) ==
    \/ c \in 192..65535
    \/ IsWordBelowC0(c)
    \/ IsSpace(c)
    \/ IsListedPunctuation(c)

MIN_RUN == 4

\* re.findall(r'[...]{4,}', s): the maximal runs of characters of the
\* class, left to right, that are four characters or longer.
re_findall(s) ==
    LET In(i) == i >= 1 /\ i <= Len(s) /\ InClass(s[i])
        first == SelectSeq(Indices(s), LAMBDA i : In(i) /\ ~In(i - 1))
        last == SelectSeq(Indices(s), LAMBDA i : In(i) /\ ~In(i + 1))
        runs == [k \in 1..Len(first) |-> SubSeq(s, first[k], last[k])]
    IN  SelectSeq(runs, LAMBDA run : Len(run) >= MIN_RUN)

_fallback_extract_text(decompressed) ==
    LET raw_text == decode_utf8_replace(decompressed)
        parts == re_findall(raw_text)
    IN IF parts = <<>> THEN <<>>
       ELSE strip(str_join(<<SPACE>>, parts))

(***************************************************************************)
(* Text clean-up at the end of _extract_text_from_protobuf.                *)
(***************************************************************************)
\* The three steps with strip() first.
clean_up_strip_first(text) ==
    remove_char(replace_char(strip(text), LINE_SEPARATOR, LF),
                OBJECT_REPLACEMENT)

clean_up(text) ==
    strip(remove_char(replace_char(text, LINE_SEPARATOR, LF),
                      OBJECT_REPLACEMENT))

RECURSIVE decode_runs_until_failure(_)
\* The inner for loop with the exception handler around the loop instead of
\* inside it: the first run that fails ends the paragraph.
decode_runs_until_failure(values) ==
    IF values = <<>> THEN <<>>
    ELSE LET d == decode_utf8(Head(values))
         IN IF d.ok THEN <<d.str>> \o decode_runs_until_failure(Tail(values))
            ELSE <<>>

RECURSIVE decode_runs(_)
\* The inner for loop of _try_structured_parse over para[2]: the runs that
\* decode, in order; a run that raises UnicodeDecodeError is passed over.
decode_runs(values) ==
    IF values = <<>> THEN <<>>
    ELSE LET d == decode_utf8(Head(values))
         IN (IF d.ok THEN <<d.str>> ELSE <<>>) \o decode_runs(Tail(values))

(***************************************************************************)
(* State.                                                                  *)
(***************************************************************************)
VARIABLES
    \* _extract_text_from_protobuf and the functions it calls
    dpc,            \* where the call is
    data,           \* the argument: the stored blob
    decompressed,
    buf, pos, fields, broke,   \* _parse_protobuf: its argument, cursor,
                               \* mapping, and whether the loop hit a break
    root, note_store, para_i, text_parts,   \* _try_structured_parse
    text,
    result,         \* the return value, NULL until the call returns
    via,            \* which extractor produced text: "structured", "fallback"
    sent,           \* the text runs data was built from, when it was
    \* the Notes store, and a call of get_folders, get_notes or get_note
    objects,        \* ZICCLOUDSYNCINGOBJECT: Z_PK -> row
    notedata,       \* ZICNOTEDATA: ZNOTE -> ZDATA
    rpc,            \* where the call is
    call,           \* the function called and its argument
    r,              \* get_note: the row fetched
    response,       \* what the call returned
    \* notes_writer
    _store_uuid,    \* the cached store UUID
    z_metadata,     \* Z_METADATA as the store holds it now
    opens,          \* how often get_store_uuid has opened the store
    tpc,            \* per task: where it is
    coredata_id,    \* per task: the result of _note_id_from_pk
    script,         \* per task: what the JXA script does, and to which note
    _locked, _waiters, woken   \* _osascript_lock and the futures it has set

decVars == <<dpc, data, decompressed, buf, pos, fields, broke, root,
             note_store, para_i, text_parts, text, result, via>>

parseVars == <<buf, pos, fields, broke>>

readerVars == <<objects, notedata, rpc, call, r, response>>

writerVars == <<_store_uuid, z_metadata, opens, tpc, coredata_id, script,
                _locked, _waiters, woken>>

\* What the decoder leaves alone.
nonDecVars == <<sent, readerVars, writerVars>>

vars == <<decVars, sent, readerVars, writerVars>>

(***************************************************************************)
(* _extract_text_from_protobuf, step by step.                              *)
(***************************************************************************)
\* _parse_protobuf(arg) is entered.
EnterParse(arg) ==
    /\ buf' = arg
    /\ pos' = 0
    /\ fields' = EmptyDict
    /\ broke' = FALSE

LoopDone == pos >= Len(buf) \/ broke

\* _try_structured_parse returns s to line 111; line 112 picks the path.
StructuredReturns(s) ==
    /\ text' = s
    /\ via' = IF s = <<>> THEN via ELSE "structured"
    /\ dpc' = IF s = <<>> THEN "fallback" ELSE "clean_up"

\* Lines 103-109: gzip, then zlib, then give up with "".
Decompress ==
    /\ dpc = "decompress"
    /\ UNCHANGED nonDecVars
    /\ LET g == gzip_decompress(data)
           z == zlib_decompress(data)
       IN IF g.ok \/ z.ok
          THEN /\ decompressed' = IF g.ok THEN g.bytes ELSE z.bytes
               /\ EnterParse(decompressed')
               /\ dpc' = "root"
               /\ UNCHANGED result
          ELSE /\ result' = Some(<<>>)
               /\ dpc' = "returned"
               /\ UNCHANGED <<decompressed, parseVars>>
    /\ UNCHANGED <<data, root, note_store, para_i, text_parts, text, via>>

\* One iteration of the while loop of _parse_protobuf, at any of its three
\* call sites.
ParseStep ==
    /\ dpc \in {"root", "note_store", "para"}
    /\ UNCHANGED nonDecVars
    /\ ~LoopDone
    /\ LET e == parse_entry(buf, pos, fields)
       IN /\ pos' = e.pos
          /\ fields' = e.fields
          /\ broke' = e.brk
    /\ UNCHANGED <<dpc, data, decompressed, buf, root, note_store, para_i,
                   text_parts, text, result, via>>

\* Lines 125-129: root is parsed.
RootParsed ==
    /\ dpc = "root"
    /\ UNCHANGED nonDecVars
    /\ LoopDone
    /\ root' = fields
    /\ IF 2 \notin DOMAIN fields
       THEN /\ StructuredReturns(<<>>)
            /\ UNCHANGED parseVars
       ELSE /\ EnterParse(fields[2][1])
            /\ dpc' = "note_store"
            /\ UNCHANGED <<text, via>>
    /\ UNCHANGED <<data, decompressed, note_store, para_i, text_parts, result>>

\* Lines 129-135: root[2][0] is parsed.
NoteStoreParsed ==
    /\ dpc = "note_store"
    /\ UNCHANGED nonDecVars
    /\ LoopDone
    /\ note_store' = fields
    /\ IF 3 \notin DOMAIN fields
       THEN /\ StructuredReturns(<<>>)
            /\ UNCHANGED <<para_i, text_parts>>
       ELSE /\ text_parts' = <<>>
            /\ para_i' = 1
            /\ dpc' = "paras"
            /\ UNCHANGED <<text, via>>
    /\ UNCHANGED <<data, decompressed, parseVars, root, result>>

\* Lines 136-137 and 146: the head of the for loop over note_store[3].
NextPara ==
    /\ dpc = "paras"
    /\ UNCHANGED nonDecVars
    /\ IF para_i <= Len(note_store[3])
       THEN /\ EnterParse(note_store[3][para_i])
            /\ dpc' = "para"
            /\ UNCHANGED <<text, via>>
       ELSE /\ StructuredReturns(str_join(<<LF>>, text_parts))
            /\ UNCHANGED parseVars
    /\ UNCHANGED <<data, decompressed, root, note_store, para_i, text_parts,
                   result>>

\* Lines 137-144: one paragraph is parsed and its runs are collected.
ParaParsed ==
    /\ dpc = "para"
    /\ UNCHANGED nonDecVars
    /\ LoopDone
    /\ text_parts' = IF 2 \in DOMAIN fields
                     THEN text_parts \o decode_runs(fields[2])
                     ELSE text_parts
    /\ para_i' = para_i + 1
    /\ dpc' = "paras"
    /\ UNCHANGED <<data, decompressed, parseVars, root, note_store, text,
                   result, via>>

\* Line 113.
Fallback ==
    /\ dpc = "fallback"
    /\ UNCHANGED nonDecVars
    /\ text' = _fallback_extract_text(decompressed)
    /\ via' = "fallback"
    /\ dpc' = "clean_up"
    /\ UNCHANGED <<data, decompressed, parseVars, root, note_store, para_i,
                   text_parts, result>>

\* Lines 116-120.
CleanUp ==
    /\ dpc = "clean_up"
    /\ UNCHANGED nonDecVars
    /\ text' = clean_up(text)
    /\ result' = Some(text')
    /\ dpc' = "returned"
    /\ UNCHANGED <<data, decompressed, parseVars, root, note_store, para_i,
                   text_parts, via>>

DecodeNext ==
    \/ Decompress
    \/ ParseStep
    \/ RootParsed
    \/ NoteStoreParsed
    \/ NextPara
    \/ ParaParsed
    \/ Fallback
    \/ CleanUp

(***************************************************************************)
(* notes_reader: the queries.  A row of ZICCLOUDSYNCINGOBJECT is a record  *)
(* of the columns the queries use; ZSNIPPET, ZCREATIONDATE3 and            *)
(* ZHASCHECKLIST are selected and converted as ZTITLE1,                    *)
(* ZMODIFICATIONDATE1 and ZISPINNED are and are left out.                  *)
(***************************************************************************)
\* Only the marker 1 counts as deleted.
deleted_only_when_one(row) == row.ZMARKEDFORDELETION # Some(1)

\* (x.ZMARKEDFORDELETION IS NULL OR x.ZMARKEDFORDELETION = 0)
not_marked_for_deletion(row) ==
    row.ZMARKEDFORDELETION = NULL \/ row.ZMARKEDFORDELETION = Some(0)

\* SQL's order of a nullable integer column: NULL is smaller than any value.
SqlLess(x, y) ==
    \/ x = NULL /\ y # NULL
    \/ x # NULL /\ y # NULL /\ Val(x) < Val(y)

\* The order of two strings by code point (SQLite's BINARY collation, and
\* Python's str comparison).
StrLess(a, b) ==
    \/ \E k \in 1..Min(Len(a), Len(b)) :
          a[k] < b[k] /\ \A m \in 1..(k - 1) : a[m] = b[m]
    \/ Len(a) < Len(b) /\ a = SubSeq(b, 1, Len(a))

RECURSIVE Perms(_)
\* The sequences that hold every element of S once.
Perms(S) ==
    IF S = {} THEN {<<>>}
    ELSE UNION {{<<x>> \o rest : rest \in Perms(S \ {x})} : x \in S}

\* ORDER BY: the orders of the selected rows in which no row follows one it
\* must precede; rows the ORDER BY terms do not tell apart come in any
\* order.
OrderedBy(S, must_precede) ==
    {p \in Perms(S) :
        \A i \in 1..Len(p) : \A j \in (i + 1)..Len(p) :
            <<p[j], p[i]>> \notin must_precede}

\* Two decimal digits.
Digits2(n) == <<48 + (n \div 10), 48 + (n % 10)>>

\* _apple_timestamp_to_iso, for whole seconds within January 2001:
\* "2001-01-DDTHH:MM:SS+00:00".
_apple_timestamp_to_iso(ts) ==
    IF ts = NULL THEN NULL
    ELSE LET t == Val(ts)
         IN Some(<<50, 48, 48, 49, 45, 48, 49, 45>>
                 \o Digits2(1 + (t \div 86400)) \o <<84>>
                 \o Digits2((t % 86400) \div 3600) \o <<58>>
                 \o Digits2((t % 3600) \div 60) \o <<58>>
                 \o Digits2(t % 60)
                 \o <<43, 48, 48, 58, 48, 48>>)

\* x or default, for an Optional[str]
StrOr(x, default) == IF x = NULL \/ Val(x) = <<>> THEN default ELSE Val(x)

\* bool(x) for a nullable integer column
Bool(x) == x # NULL /\ Val(x) # 0

\* "Notes"
DefaultFolderName == <<78, 111, 116, 101, 115>>

\* f.ZTITLE2 of LEFT JOIN ZICCLOUDSYNCINGOBJECT f ON n.ZFOLDER = f.Z_PK
folder_name(pk) ==
    LET f == objects[pk].ZFOLDER
    IN IF f # NULL /\ Val(f) \in DOMAIN objects
       THEN objects[Val(f)].ZTITLE2 ELSE NULL

\* The Note built from row pk with the given body.
MakeNote(pk, body) ==
    [id |-> pk,
     title |-> StrOr(objects[pk].ZTITLE1, <<>>),
     body |-> body,
     folder |-> StrOr(folder_name(pk), DefaultFolderName),
     modified |-> StrOr(_apple_timestamp_to_iso(
                            objects[pk].ZMODIFICATIONDATE1), <<>>),
     is_pinned |-> Bool(objects[pk].ZISPINNED)]

\* COUNT(n.Z_PK) over the rows joined to folder f.
note_count(f) ==
    Cardinality({n \in DOMAIN objects :
                    /\ objects[n].ZFOLDER = Some(f)
                    /\ objects[n].ZTITLE1 # NULL
                    /\ not_marked_for_deletion(objects[n])})

\* get_folders().
get_folders ==
    /\ rpc = "idle"
    /\ call' = Some([fn |-> "get_folders", arg |-> NULL])
    /\ LET selected == {f \in DOMAIN objects :
                           /\ objects[f].ZTITLE2 # NULL
                           /\ not_marked_for_deletion(objects[f])}
           by_title ==
               {<<a, b>> \in selected \X selected :
                   StrLess(Val(objects[a].ZTITLE2), Val(objects[b].ZTITLE2))}
       IN \E order \in OrderedBy(selected, by_title) :
             response' = [i \in 1..Len(order) |->
                             [id |-> order[i],
                              name |-> Val(objects[order[i]].ZTITLE2),
                              note_count |-> note_count(order[i])]]
    /\ rpc' = "done"
    /\ UNCHANGED <<decVars, sent, objects, notedata, r, writerVars>>

\* get_notes(folder_id).
get_notes(folder_id) ==
    /\ rpc = "idle"
    /\ call' = Some([fn |-> "get_notes", arg |-> folder_id])
    /\ LET selected == {n \in DOMAIN objects :
                           /\ objects[n].ZTITLE1 # NULL
                           /\ not_marked_for_deletion(objects[n])
                           /\ folder_id # NULL
                                 => objects[n].ZFOLDER = folder_id}
           \* ORDER BY n.ZISPINNED DESC, n.ZMODIFICATIONDATE1 DESC
           pinned_then_modified ==
               {<<a, b>> \in selected \X selected :
                   \/ SqlLess(objects[b].ZISPINNED, objects[a].ZISPINNED)
                   \/ /\ objects[a].ZISPINNED = objects[b].ZISPINNED
                      /\ SqlLess(objects[b].ZMODIFICATIONDATE1,
                                 objects[a].ZMODIFICATIONDATE1)}
       IN \E order \in OrderedBy(selected, pinned_then_modified) :
             response' = [i \in 1..Len(order) |-> MakeNote(order[i], <<>>)]
    /\ rpc' = "done"
    /\ UNCHANGED <<decVars, sent, objects, notedata, r, writerVars>>

\* nd.ZDATA of LEFT JOIN ZICNOTEDATA nd ON nd.ZNOTE = n.Z_PK
body_data_of(pk) == IF pk \in DOMAIN notedata THEN notedata[pk] ELSE NULL

\* if r["body_data"]: a blob that is there and not empty
Truthy(body_data) ==
    /\ body_data # NULL
    /\ ~(Val(body_data).fmt = "raw" /\ Val(body_data).payload = <<>>)

\* get_note(note_id) up to line 270: the row is fetched; without a row the
\* call returns None, without body data the Note with an empty body, else
\* _extract_text_from_protobuf is called.
get_note(note_id) ==
    /\ rpc = "idle"
    /\ call' = Some([fn |-> "get_note", arg |-> Some(note_id)])
    /\ LET rows == {n \in DOMAIN objects :
                       n = note_id /\ not_marked_for_deletion(objects[n])}
       IN IF rows = {}
          THEN /\ r' = NULL
               /\ response' = NULL
               /\ rpc' = "done"
               /\ UNCHANGED decVars
          ELSE /\ r' = Some(note_id)
               /\ IF Truthy(body_data_of(note_id))
                  THEN /\ data' = Val(body_data_of(note_id))
                       /\ dpc' = "decompress"
                       /\ rpc' = "decoding"
                       /\ UNCHANGED <<response, decompressed, parseVars,
                                      root, note_store, para_i, text_parts,
                                      text, result, via>>
                  ELSE /\ response' = Some(MakeNote(note_id, <<>>))
                       /\ rpc' = "done"
                       /\ UNCHANGED decVars
    /\ UNCHANGED <<sent, objects, notedata, writerVars>>

\* get_note from line 271 on: the decoder has returned the body.
get_note_return ==
    /\ rpc = "decoding"
    /\ dpc = "returned"
    /\ response' = Some(MakeNote(Val(r), Val(result)))
    /\ rpc' = "done"
    /\ UNCHANGED <<decVars, sent, objects, notedata, call, r, writerVars>>

(***************************************************************************)
(* notes_writer.  A task is one call of create_note, edit_note or          *)
(* delete_note on the event loop; what runs between two awaits is one      *)
(* step.  tpc: "idle" (not called yet), "waiting" (suspended in            *)
(* _osascript_lock.acquire()), "spawning" (holds the lock, awaits          *)
(* create_subprocess_exec), "communicating" (holds the lock, osascript     *)
(* runs, awaits proc.communicate()), "done" (returned), "raised".          *)
(***************************************************************************)
nonWriterVars == <<decVars, sent, readerVars>>

\* get_store_uuid without the test of the cache: every call reads.
get_store_uuid_uncached ==
    IF z_metadata = NULL
    THEN [raised |-> TRUE, value |-> NULL, cache |-> _store_uuid, opened |-> 1]
    ELSE [raised |-> FALSE, value |-> Val(z_metadata),
          cache |-> Val(z_metadata), opened |-> 1]

\* get_store_uuid(): whether it raises, what it returns, what _store_uuid is
\* afterwards, and how many connections it opened.  Z_UUID may be NULL:
\* row[0] is then None.
get_store_uuid ==
    IF _store_uuid # NULL
    THEN [raised |-> FALSE, value |-> _store_uuid, cache |-> _store_uuid,
          opened |-> 0]
    ELSE IF z_metadata = NULL
    THEN [raised |-> TRUE, value |-> NULL, cache |-> NULL, opened |-> 1]
    ELSE [raised |-> FALSE, value |-> Val(z_metadata),
          cache |-> Val(z_metadata), opened |-> 1]

RECURSIVE Decimal(_)
\* str(n) for n >= 0
Decimal(n) ==
    IF n < 10 THEN <<48 + n>> ELSE Decimal(n \div 10) \o <<48 + (n % 10)>>

\* "x-coredata://"
CoreDataPrefix == <<120, 45, 99, 111, 114, 101, 100, 97, 116, 97, 58, 47, 47>>
\* "/ICNote/p"
NotePath == <<47, 73, 67, 78, 111, 116, 101, 47, 112>>
\* str(None)
NoneText == <<78, 111, 110, 101>>

\* f"x-coredata://{uuid}/ICNote/p{pk}"
_note_id_from_pk(uuid, pk) ==
    CoreDataPrefix \o (IF uuid = NULL THEN NoneText ELSE Val(uuid))
        \o NotePath \o Decimal(pk)

\* _escape_js_string: backslash, double quote, newline, carriage return and
\* tab are written as escapes.
_escape_js_string(str) ==
    Concat([i \in 1..Len(str) |->
               IF str[i] = 92 THEN <<92, 92>>
               ELSE IF str[i] = 34 THEN <<92, 34>>
               ELSE IF str[i] = 10 THEN <<92, 110>>
               ELSE IF str[i] = 13 THEN <<92, 114>>
               ELSE IF str[i] = 9 THEN <<92, 116>>
               ELSE <<str[i]>>])

\* The lock is taken whoever holds it.
can_acquire_always == TRUE

\* asyncio.Lock.acquire() returns at once when the lock is free and nobody
\* waits for it.
can_acquire == ~_locked /\ _waiters = <<>>

\* async with _osascript_lock, entered by task t: the lock is taken, or the
\* task joins the waiters and is suspended.
lock_acquire(t) ==
    IF can_acquire
    THEN /\ _locked' = TRUE
         /\ tpc' = [tpc EXCEPT ![t] = "spawning"]
         /\ UNCHANGED <<_waiters, woken>>
    ELSE /\ _waiters' = Append(_waiters, t)
         /\ tpc' = [tpc EXCEPT ![t] = "waiting"]
         /\ UNCHANGED <<_locked, woken>>

\* The async with block is left: the lock is released and the future of the
\* first waiter is set.
lock_release ==
    /\ _locked' = FALSE
    /\ woken' = IF _waiters # <<>> THEN woken \cup {Head(_waiters)} ELSE woken
    /\ UNCHANGED _waiters

\* Task t is the next call to be made: the calls are numbered in the order
\* they are made.
NextCall(t) == tpc[t] = "idle" /\ \A u \in 1..(t - 1) : tpc[u] # "idle"

\* create_note(title, body, folder) up to its first suspension.
create_note(t) ==
    /\ NextCall(t)
    /\ script' = [script EXCEPT ![t] = Some([op |-> "create", id |-> NULL])]
    /\ lock_acquire(t)
    /\ UNCHANGED <<nonWriterVars, _store_uuid, z_metadata, opens, coredata_id>>

\* edit_note and delete_note up to their first suspension:
\* _note_id_from_pk(note_id), which may raise, then _run_jxa.
call_with_note_id(t, op, note_id) ==
    /\ NextCall(t)
    /\ LET uuid == get_store_uuid
       IN /\ opens' = opens + uuid.opened
          /\ _store_uuid' = uuid.cache
          /\ IF uuid.raised
             THEN /\ tpc' = [tpc EXCEPT ![t] = "raised"]
                  /\ UNCHANGED <<coredata_id, script, _locked, _waiters,
                                 woken>>
             ELSE /\ coredata_id' = [coredata_id EXCEPT ![t] =
                         Some(_note_id_from_pk(uuid.value, note_id))]
                  /\ script' = [script EXCEPT ![t] =
                         Some([op |-> op,
                               id |-> Some(_escape_js_string(
                                               Val(coredata_id'[t])))])]
                  /\ lock_acquire(t)
    /\ UNCHANGED <<nonWriterVars, z_metadata>>

edit_note(t, note_id) == call_with_note_id(t, "edit", note_id)

delete_note(t, note_id) == call_with_note_id(t, "delete", note_id)

\* A task whose future was set runs again: it leaves the waiters and holds
\* the lock.
Resume(t) ==
    /\ tpc[t] = "waiting"
    /\ t \in woken
    /\ woken' = woken \ {t}
    /\ _waiters' = SelectSeq(_waiters, LAMBDA w : w # t)
    /\ _locked' = TRUE
    /\ tpc' = [tpc EXCEPT ![t] = "spawning"]
    /\ UNCHANGED <<nonWriterVars, _store_uuid, z_metadata, opens, coredata_id,
                   script>>

\* create_subprocess_exec returns the process.
SpawnOk(t) ==
    /\ tpc[t] = "spawning"
    /\ tpc' = [tpc EXCEPT ![t] = "communicating"]
    /\ UNCHANGED <<nonWriterVars, _store_uuid, z_metadata, opens, coredata_id,
                   script, _locked, _waiters, woken>>

\* create_subprocess_exec raises and the lock stays held: acquire() and
\* release() called by hand, without try/finally.
spawn_fails_holding_lock(t) ==
    /\ tpc[t] = "spawning"
    /\ tpc' = [tpc EXCEPT ![t] = "raised"]
    /\ UNCHANGED <<nonWriterVars, _store_uuid, z_metadata, opens, coredata_id,
                   script, _locked, _waiters, woken>>

\* create_subprocess_exec raises: the block is left by the exception.
SpawnFails(t) ==
    /\ tpc[t] = "spawning"
    /\ lock_release
    /\ tpc' = [tpc EXCEPT ![t] = "raised"]
    /\ UNCHANGED <<nonWriterVars, _store_uuid, z_metadata, opens, coredata_id,
                   script>>

\* proc.communicate() returns: the block is left, then the return code is
\* looked at.
Exit(t, returncode) ==
    /\ tpc[t] = "communicating"
    /\ lock_release
    /\ tpc' = [tpc EXCEPT ![t] = IF returncode = 0 THEN "done" ELSE "raised"]
    /\ UNCHANGED <<nonWriterVars, _store_uuid, z_metadata, opens, coredata_id,
                   script>>

\* What Z_METADATA may hold: no row, a row without Z_UUID, a row with the
\* UUID "A" or "B".
MetadataValues == {NULL, Some(NULL), Some(Some(<<65>>)), Some(Some(<<66>>))}

\* The store is replaced or its metadata rewritten while the server runs.
\* Only get_store_uuid reads Z_METADATA, at the start of a call: a change
\* after the last call has been made is seen by nobody and is left out.
MetadataChanges ==
    /\ \E t \in DOMAIN tpc : tpc[t] = "idle"
    /\ z_metadata' \in MetadataValues \ {z_metadata}
    /\ UNCHANGED <<nonWriterVars, _store_uuid, opens, tpc, coredata_id, script,
                   _locked, _waiters, woken>>

(***************************************************************************)
(* Inputs of the decoder.                                                  *)
(***************************************************************************)
RECURSIVE SeqsUpTo(_, _)
\* The sequences over S of length at most n.
SeqsUpTo(S, n) ==
    IF n = 0 THEN {<<>>}
    ELSE LET shorter == SeqsUpTo(S, n - 1)
         IN shorter \cup {Append(s, x) :
                             s \in {t \in shorter : Len(t) = n - 1}, x \in S}

Gzip(p) == [fmt |-> "gzip", payload |-> p]
Zlib(p) == [fmt |-> "zlib", payload |-> p]
Raw(p) == [fmt |-> "raw", payload |-> p]

RECURSIVE EncodeVarint(_)
EncodeVarint(n) ==
    IF n < 128 THEN <<n>> ELSE <<128 + (n % 128)>> \o EncodeVarint(n \div 128)

\* A kind-2 entry: the tag of field f, the length, the bytes.
LenDelimited(f, bytes) ==
    EncodeVarint(f * 8 + 2) \o EncodeVarint(Len(bytes)) \o bytes

\* The synthetic message of a sequence of text runs: root field 2 -> one
\* sub-message -> one field 3 per run -> field 2 = the run's bytes.
EncodeRuns(runs) ==
    LenDelimited(2,
        Concat([i \in 1..Len(runs) |->
                   LenDelimited(3, LenDelimited(2, runs[i]))]))

\* Arbitrary bytes.  0x12: the tag of field 2, kind 2.  0x92: 0x12 with the
\* continuation bit.  0x80: a continuation byte of payload 0 (as a tag's
\* first byte: kind 0).  0x03: a kind the reader does not know.  0x01: a
\* length, or a tag of kind 1.  0x41: "A".
GarbageBytes == {18, 146, 128, 3, 1, 65}
MaxGarbageLen == 4
GarbageInputs == SeqsUpTo(GarbageBytes, MaxGarbageLen)

\* Text runs as bytes: "A", "", " ", U+2028, U+FFFC, "e" with acute (two
\* bytes), and "A" followed by a stray continuation byte (not UTF-8).
RunBytes == {<<65>>, <<>>, <<32>>, <<226, 128, 168>>, <<239, 191, 188>>,
             <<195, 169>>, <<65, 128>>}
MaxRuns == 2
RunInputs == SeqsUpTo(RunBytes, MaxRuns)

\* A run long enough for its length to take a two-byte varint.
LongRun == [i \in 1..130 |-> 65]

\* Less regular messages.  What a paragraph may hold: runs in field 2 ("A",
\* a stray continuation byte), a kind-2 entry of field 1; and two bodies
\* more: a run followed by a tag 0x92 cut off by the end, and a kind-5
\* entry followed by the run "e" with acute.
ParaItems == {LenDelimited(2, <<65>>), LenDelimited(2, <<128>>),
              LenDelimited(1, <<66>>)}
ParaBodies ==
    {Concat(items) : items \in SeqsUpTo(ParaItems, 2)}
        \cup {LenDelimited(2, <<65>>) \o <<146>>,
              <<13, 0, 0, 0, 0>> \o LenDelimited(2, <<195, 169>>)}
\* What the container may hold: paragraphs in field 3, a field-2 entry.
StoreItems == {LenDelimited(3, body) : body \in ParaBodies}
                  \cup {LenDelimited(2, <<65>>)}
MaxParas == 2
StoreInputs == {Concat(items) : items \in SeqsUpTo(StoreItems, MaxParas)}
\* The root holds the container in field 2, alone, after a field-3 entry,
\* or before a second field-2 entry.
MessageInputs ==
    {LenDelimited(2, store) : store \in StoreInputs}
        \cup {LenDelimited(3, <<65>>) \o LenDelimited(2, store) :
                 store \in StoreInputs}
        \cup {LenDelimited(2, store) \o LenDelimited(2, <<>>) :
                 store \in StoreInputs}

\* Buffers of text the structured path may not read: characters "m", " ",
\* U+2028 and U+FFFC between a few bytes that are not text.
TextChars == {<<109>>, <<32>>, <<226, 128, 168>>, <<239, 191, 188>>}
MaxTextLen == 4
TextBefore == {<<>>, <<1>>, <<226>>}
TextAfter == {<<>>, <<226, 128>>}
TextInputs ==
    {before \o Concat(chars) \o after :
        before \in TextBefore, after \in TextAfter,
        chars \in SeqsUpTo(TextChars, MaxTextLen)}

\* "meeting notes here", alone and between bytes that are not text.
MeetingNotes == <<109, 101, 101, 116, 105, 110, 103, 32, 110, 111, 116, 101,
                  115, 32, 104, 101, 114, 101>>
MeetingInputs == {MeetingNotes, <<1>> \o MeetingNotes \o <<226, 128>>}

DecoderIdle ==
    /\ decompressed = <<>>
    /\ buf = <<>>
    /\ pos = 0
    /\ fields = EmptyDict
    /\ broke = FALSE
    /\ root = EmptyDict
    /\ note_store = EmptyDict
    /\ para_i = 0
    /\ text_parts = <<>>
    /\ text = <<>>
    /\ result = NULL
    /\ via = "none"

ReaderIdle ==
    /\ objects = <<>>
    /\ notedata = <<>>
    /\ rpc = "idle"
    /\ call = NULL
    /\ r = NULL
    /\ response = NULL

WriterIdle ==
    /\ _store_uuid = NULL
    /\ z_metadata = NULL
    /\ opens = 0
    /\ tpc = <<>>
    /\ coredata_id = <<>>
    /\ script = <<>>
    /\ _locked = FALSE
    /\ _waiters = <<>>
    /\ woken = {}

\* A call of _extract_text_from_protobuf(data).
InitDecode ==
    /\ \/ /\ sent = NULL
          /\ data \in {Gzip(p) : p \in GarbageInputs \cup MessageInputs
                                        \cup TextInputs \cup MeetingInputs}
                      \cup {Zlib(p) : p \in SeqsUpTo(GarbageBytes, 1)}
                      \cup {Raw(p) : p \in SeqsUpTo(GarbageBytes, 1)}
       \/ /\ \E runs \in RunInputs \cup {<<LongRun>>, <<LongRun, <<65>>>>} :
                /\ sent = Some(runs)
                /\ data \in {Gzip(EncodeRuns(runs)), Zlib(EncodeRuns(runs))}
    /\ dpc = "decompress"
    /\ DecoderIdle
    /\ ReaderIdle
    /\ WriterIdle

SpecDecode == InitDecode /\ [][DecodeNext]_vars

(***************************************************************************)
(* The Notes store the queries read, and one call of a query.              *)
(***************************************************************************)
NumNotes == 2
NotePks == 2..(1 + NumNotes)

MarkerValues == {NULL, Some(0), Some(1), Some(2)}
PinnedValues == {NULL, Some(0), Some(1), Some(2), Some(-1)}
ModifiedValues == {NULL, Some(1), Some(61)}

\* Row 1 is the folder "F"; rows 2.. are notes titled "N".
FolderRow(marker) ==
    [ZTITLE1 |-> NULL, ZTITLE2 |-> Some(<<70>>),
     ZMARKEDFORDELETION |-> marker, ZFOLDER |-> NULL,
     ZISPINNED |-> NULL, ZMODIFICATIONDATE1 |-> NULL]

NoteRow(title, marker, folder, pinned, modified) ==
    [ZTITLE1 |-> title, ZTITLE2 |-> NULL,
     ZMARKEDFORDELETION |-> marker, ZFOLDER |-> folder,
     ZISPINNED |-> pinned, ZMODIFICATIONDATE1 |-> modified]

\* Notes of every pinned value and modification time, none deleted.
OrderStores ==
    {[pk \in 1..(1 + NumNotes) |->
         IF pk = 1 THEN FolderRow(NULL)
         ELSE NoteRow(Some(<<78>>), NULL, Some(1), c[pk].pinned,
                      c[pk].modified)] :
        c \in [NotePks -> [pinned : PinnedValues, modified : ModifiedValues]]}

\* A folder and rows of every deletion marker, with and without a note
\* title, in the folder or in none.
DeleteStores ==
    {[pk \in 1..(1 + NumNotes) |->
         IF pk = 1 THEN FolderRow(m)
         ELSE NoteRow(c[pk].title, c[pk].marker, c[pk].folder, Some(0),
                      Some(1))] :
        m \in MarkerValues,
        c \in [NotePks -> [title : {NULL, Some(<<78>>)},
                           marker : MarkerValues,
                           folder : {NULL, Some(1)}]]}

\* The store with body data for note 2 only.
BodyStore ==
    [pk \in 1..(1 + NumNotes) |->
        IF pk = 1 THEN FolderRow(NULL)
        ELSE NoteRow(Some(<<78>>), NULL, Some(1), Some(0), Some(1))]

\* ZDATA: absent, empty, not compressed, and compressed text and messages.
BodyData ==
    {NULL, Some(Raw(<<>>)), Some(Raw(<<1>>))}
        \cup {Some(Gzip(p)) : p \in TextInputs \cup MeetingInputs}
        \cup {Some(Zlib(EncodeRuns(runs))) : runs \in RunInputs}

InitReader ==
    /\ \/ /\ objects \in OrderStores \cup DeleteStores
          /\ notedata = [pk \in NotePks |-> NULL]
       \/ /\ objects = BodyStore
          /\ \E b \in BodyData :
                notedata = [pk \in NotePks |-> IF pk = 2 THEN b ELSE NULL]
    /\ rpc = "idle"
    /\ call = NULL
    /\ r = NULL
    /\ response = NULL
    /\ sent = NULL
    /\ dpc = "idle"
    /\ data = Raw(<<>>)
    /\ DecoderIdle
    /\ WriterIdle

ReadNext ==
    \/ get_folders
    \/ \E folder_id \in {NULL, Some(1), Some(2)} : get_notes(folder_id)
    \/ \E note_id \in 1..(2 + NumNotes) : get_note(note_id)
    \/ get_note_return
    \/ DecodeNext

SpecReader == InitReader /\ [][ReadNext]_vars

(***************************************************************************)
(* Concurrent calls of the writer.                                         *)
(***************************************************************************)
NumTasks == 3
Tasks == 1..NumTasks

InitWriter ==
    /\ _store_uuid = NULL
    /\ z_metadata \in MetadataValues
    /\ opens = 0
    /\ tpc = [t \in Tasks |-> "idle"]
    /\ coredata_id = [t \in Tasks |-> NULL]
    /\ script = [t \in Tasks |-> NULL]
    /\ _locked = FALSE
    /\ _waiters = <<>>
    /\ woken = {}
    /\ sent = NULL
    /\ dpc = "idle"
    /\ data = Raw(<<>>)
    /\ DecoderIdle
    /\ ReaderIdle

WriteNext ==
    \/ \E t \in Tasks : create_note(t)
    \/ \E t \in Tasks, note_id \in {13} : edit_note(t, note_id)
    \/ \E t \in Tasks, note_id \in {13} : delete_note(t, note_id)
    \/ \E t \in Tasks : Resume(t)
    \/ \E t \in Tasks : SpawnOk(t)
    \/ \E t \in Tasks : SpawnFails(t)
    \/ \E t \in Tasks, returncode \in {0, 1} : Exit(t, returncode)
    \/ MetadataChanges

SpecWriter == InitWriter /\ [][WriteNext]_vars

\* Every task that can run does: the event loop runs a task whose future is
\* set, create_subprocess_exec returns or raises, and every osascript that
\* was spawned terminates.  A task has one of these steps open at a time.
TaskStep(t) ==
    \/ Resume(t)
    \/ SpawnOk(t)
    \/ SpawnFails(t)
    \/ \E returncode \in {0, 1} : Exit(t, returncode)

WriterFairness == \A t \in Tasks : WF_vars(TaskStep(t))

SpecWriterFair == SpecWriter /\ WriterFairness

(***************************************************************************)
(* Properties of the decoder.                                              *)
(***************************************************************************)
IsStr(v) == v \in Seq(0..1114111)

ParsePlaces == {"root", "note_store", "para"}

\* The iteration of the _parse_protobuf loop about to run leaves the cursor
\* further on than it found it.
CursorAdvances ==
    (dpc \in ParsePlaces /\ ~LoopDone) => parse_entry(buf, pos, fields).pos > pos

\* A bound on the steps the call still has to take: the stages in the order
\* they are passed through and, within a stage, the paragraphs left and the
\* bytes left before the cursor.
Rank ==
    LET L == Len(data.payload)
        W == (L + 2) * (L + 2)
        left == IF pos < Len(buf) THEN Len(buf) - pos ELSE 0
        paras == IF 3 \in DOMAIN note_store
                 THEN Len(note_store[3]) + 1 - para_i ELSE 0
    IN  CASE dpc = "decompress" -> 6 * W
          [] dpc = "root" -> 5 * W + left
          [] dpc = "note_store" -> 4 * W + left
          [] dpc = "paras" -> 3 * W + paras * (L + 2) + L + 1
          [] dpc = "para" -> 3 * W + paras * (L + 2) + left
          [] dpc = "fallback" -> 2 * W
          [] dpc = "clean_up" -> W
          [] OTHER -> 0

\* C1: for every input byte sequence (empty, arbitrary, cut off inside a
\* varint), _extract_text_from_protobuf terminates and returns a string
\* without raising: every iteration of the parse loop strictly advances the
\* cursor, parsing happens at three fixed levels only, every step the call
\* takes lowers a bound that cannot go below zero, so the call cannot run
\* for ever, and what it returns is a str.
C1_DecodeTerminates ==
    /\ [](CursorAdvances)
    /\ [](dpc \in ParsePlaces \cup {"decompress", "paras", "fallback",
                                     "clean_up", "returned"})
    /\ [](Rank >= 0)
    /\ [][DecodeNext => Rank' < Rank]_vars
    /\ [](dpc # "returned" => result = NULL)
    /\ [](dpc = "returned" => result # NULL /\ IsStr(Val(result)))

\* The call has returned for an input whose last byte has the continuation
\* bit set, after three levels of parsing.
C1_Witness ==
    /\ dpc = "returned"
    /\ decompressed # <<>>
    /\ decompressed[Len(decompressed)] = 146
    /\ para_i > 1

(***************************************************************************)
(* Round trip of an encoded sequence of text runs.                         *)
(***************************************************************************)
Contains(s, sub) ==
    \E k \in 0..(Len(s) - Len(sub)) : SubSeq(s, k + 1, k + Len(sub)) = sub

\* The runs decoded and joined by a newline.
JoinedRuns(runs) ==
    str_join(<<LF>>, [i \in 1..Len(runs) |-> decode_utf8(runs[i]).str])

\* A non-empty sequence of valid UTF-8 runs whose join is not empty, holds
\* neither U+2028 nor U+FFFC and neither begins nor ends with whitespace.
RoundTripInput(runs) ==
    /\ runs # <<>>
    /\ \A i \in 1..Len(runs) : decode_utf8(runs[i]).ok
    /\ LET joined == JoinedRuns(runs)
       IN /\ joined # <<>>
          /\ \A k \in 1..Len(joined) :
                joined[k] \notin {LINE_SEPARATOR, OBJECT_REPLACEMENT}
          /\ ~IsSpace(joined[1])
          /\ ~IsSpace(joined[Len(joined)])

\* C5: the message built from a sequence of runs as root field 2 -> one
\* sub-message -> one field 3 per run -> field 2 = the run's bytes (the runs
\* valid UTF-8, their newline-join non-empty, free of U+2028 and U+FFFC and
\* of leading and trailing whitespace) decodes to exactly the runs joined by
\* a newline, in order, and the fallback scanner is not used.
C5_RoundTrip ==
    (dpc = "returned" /\ sent # NULL /\ RoundTripInput(Val(sent)))
        => /\ result = Some(JoinedRuns(Val(sent)))
           /\ via = "structured"

\* Two different runs, one of them of two bytes per character, have made
\* the round trip.
C5_Witness ==
    /\ dpc = "returned"
    /\ sent # NULL
    /\ RoundTripInput(Val(sent))
    /\ Len(Val(sent)) = 2
    /\ Val(sent)[1] = <<65>>
    /\ Val(sent)[2] = <<195, 169>>
    /\ result = Some(<<65, LF, 233>>)

(***************************************************************************)
(* Fallback activation.                                                    *)
(***************************************************************************)
\* A character the scanner's class admits.
PermittedChar(c) ==
    \/ IsWordBelowC0(c)
    \/ IsSpace(c)
    \/ IsListedPunctuation(c)
    \/ (c >= 192 /\ c <= 65535)

\* The buffer as text.
BufferText == decode_utf8_replace(decompressed)

\* Positions i..j of the buffer's text are four or more permitted characters.
PermittedRun(i, j) ==
    /\ j - i + 1 >= MIN_RUN
    /\ \A k \in i..j : PermittedChar(BufferText[k])

\* The run neither begins nor ends with whitespace and holds neither U+2028
\* nor U+FFFC.
SurvivesCleanUp(i, j) ==
    /\ ~IsSpace(BufferText[i])
    /\ ~IsSpace(BufferText[j])
    /\ \A k \in i..j :
          BufferText[k] \notin {LINE_SEPARATOR, OBJECT_REPLACEMENT}

\* The decoder took the fallback path and returned a non-empty string that
\* contains the run at i..j.
FallbackReturnsRun(i, j) ==
    /\ via = "fallback"
    /\ result # Some(<<>>)
    /\ Contains(Val(result), SubSeq(BufferText, i, j))

\* C6 as stated: for any decompressed buffer whose root has no field 2 and
\* which contains a run of four or more permitted characters, the decoder
\* takes the fallback path and returns a non-empty string containing that
\* run.
C6_AnyRunReturned ==
    (dpc = "returned" /\ 2 \notin DOMAIN root)
        => \A i \in 1..Len(BufferText) : \A j \in i..Len(BufferText) :
              PermittedRun(i, j) => FallbackReturnsRun(i, j)

\* C6, amended: for any decompressed buffer whose root has no field 2 and
\* which contains a run of four or more permitted characters that neither
\* begins nor ends with whitespace and holds neither U+2028 nor U+FFFC, the
\* decoder takes the fallback path and returns a non-empty string containing
\* that run, whatever bytes surround it.
C6_FallbackActivation ==
    (dpc = "returned" /\ 2 \notin DOMAIN root)
        => \A i \in 1..Len(BufferText) : \A j \in i..Len(BufferText) :
              (PermittedRun(i, j) /\ SurvivesCleanUp(i, j))
                  => FallbackReturnsRun(i, j)

\* "meeting notes here" between a byte 0x01 and a cut-off UTF-8 sequence has
\* been returned by the fallback path.
C6_Witness ==
    /\ dpc = "returned"
    /\ 2 \notin DOMAIN root
    /\ decompressed = <<1>> \o MeetingNotes \o <<226, 128>>
    /\ PermittedRun(2, 19)
    /\ SurvivesCleanUp(2, 19)
    /\ FallbackReturnsRun(2, 19)

(***************************************************************************)
(* Partial results of _parse_protobuf.                                     *)
(***************************************************************************)
\* A varint starting at pos ends inside the buffer: some byte from there on
\* has its continuation bit clear.
VarintComplete(buffer, at) ==
    \E e \in (at + 1)..Len(buffer) : buffer[e] < 128

RECURSIVE CompleteValues(_, _, _)
\* The values of the kind-2 entries that are complete, up to the first entry
\* that is not: its tag or its length is cut off by the end of the buffer,
\* its declared length exceeds the bytes that remain, or its kind is none of
\* 0, 1, 2, 5.
CompleteValues(buffer, at, found) ==
    IF at >= Len(buffer) \/ ~VarintComplete(buffer, at) THEN found
    ELSE LET tag == _read_varint(buffer, at)
             kind == tag.value % 8
             number == tag.value \div 8
         IN  IF kind = 0
             THEN IF VarintComplete(buffer, tag.pos)
                  THEN CompleteValues(buffer,
                                      _read_varint(buffer, tag.pos).pos, found)
                  ELSE found
             ELSE IF kind = 2
             THEN IF ~VarintComplete(buffer, tag.pos) THEN found
                  ELSE LET length == _read_varint(buffer, tag.pos)
                       IN IF length.pos + length.value > Len(buffer)
                          THEN found
                          ELSE CompleteValues(buffer,
                                   length.pos + length.value,
                                   dict_append(found, number,
                                       SubSeq(buffer, length.pos + 1,
                                              length.pos + length.value)))
             ELSE IF kind = 5 THEN CompleteValues(buffer, tag.pos + 4, found)
             ELSE IF kind = 1 THEN CompleteValues(buffer, tag.pos + 8, found)
             ELSE found

\* C8: when an entry cannot be completed (the buffer ends inside its tag or
\* length varint, its declared length exceeds the remaining bytes, or its
\* kind is not 0, 1, 2 or 5), _parse_protobuf stops there and returns
\* exactly the values of the kind-2 entries completely parsed before it; the
\* incomplete entry contributes no value.
C8_PartialResult ==
    (dpc \in ParsePlaces /\ LoopDone)
        => fields = CompleteValues(buf, 0, EmptyDict)

(***************************************************************************)
(* What the structured extractor returns.                                  *)
(***************************************************************************)
\* _try_structured_parse has just returned to line 111; text is its result.
StructuredReturned ==
    dpc = "fallback" \/ (dpc = "clean_up" /\ via = "structured")

\* The field-2 values of the field-3 sub-messages of root[2][0], as
\* _parse_protobuf reports them, in the order of the input.
Field2OfField3 ==
    LET outer == _parse_protobuf(decompressed)
        container == IF 2 \in DOMAIN outer
                     THEN _parse_protobuf(outer[2][1]) ELSE EmptyDict
        paras == IF 3 \in DOMAIN container THEN container[3] ELSE <<>>
        runs(i) == LET para == _parse_protobuf(paras[i])
                   IN IF 2 \in DOMAIN para THEN para[2] ELSE <<>>
    IN  Concat([i \in 1..Len(paras) |-> runs(i)])

\* C9: the structured extractor's result is the newline-join of exactly
\* those field-2 byte strings, over all field-3 sub-messages of the root's
\* field-2 container, that are valid UTF-8, in the order they occur in the
\* input; a run that fails to decode is skipped and neither drops nor
\* reorders any other run.
C9_StructuredResult ==
    StructuredReturned
        => LET valid == SelectSeq(Field2OfField3,
                                  LAMBDA run : decode_utf8(run).ok)
           IN text = JoinedRuns(valid)

\* The extractor has returned "A" joined to "A" from a container whose first
\* paragraph holds a run that is not UTF-8 before the run "A".
C9_Witness ==
    /\ StructuredReturned
    /\ Len(Field2OfField3) = 3
    /\ ~decode_utf8(Field2OfField3[1]).ok
    /\ text = <<65, LF, 65>>

(***************************************************************************)
(* Properties of the queries.                                              *)
(***************************************************************************)
Returned(fn) == rpc = "done" /\ call # NULL /\ Val(call).fn = fn

\* C2: in the result of get_notes every note exposed as pinned precedes
\* every note exposed as not pinned, and two notes of the same exposed
\* is_pinned come in non-increasing order of modification time, whatever
\* the stored pinned values (NULL, 0, 1, other) and modification times.
C2_PinnedFirstNewestFirst ==
    Returned("get_notes")
        => \A i \in 1..Len(response) : \A j \in (i + 1)..Len(response) :
              /\ response[j].is_pinned => response[i].is_pinned
              /\ response[i].is_pinned = response[j].is_pinned
                    => ~StrLess(response[i].modified, response[j].modified)

\* A deletion marker of NULL or 0 means present, any other value deleted.
Present(row) == row.ZMARKEDFORDELETION \in {NULL, Some(0)}

PresentNotes(folder_id) ==
    {n \in DOMAIN objects :
        /\ Present(objects[n])
        /\ objects[n].ZTITLE1 # NULL
        /\ folder_id # NULL => objects[n].ZFOLDER = folder_id}

PresentFolders ==
    {f \in DOMAIN objects : Present(objects[f]) /\ objects[f].ZTITLE2 # NULL}

\* The response lists exactly the rows of the set, each once.
ListsExactly(rows) ==
    /\ Len(response) = Cardinality(rows)
    /\ {response[i].id : i \in 1..Len(response)} = rows

\* C3: a row whose deletion marker is NULL or 0 is present, a row with any
\* other marker is deleted: get_notes returns exactly the present notes
\* (of the folder asked for), get_note returns a note exactly when its row
\* is present, get_folders returns exactly the present folders, and every
\* note_count counts exactly the present notes of the folder.
C3_SoftDelete ==
    /\ Returned("get_notes") => ListsExactly(PresentNotes(Val(call).arg))
    /\ Returned("get_note")
          => LET note_id == Val(Val(call).arg)
             IN /\ response # NULL
                      <=> (note_id \in DOMAIN objects
                              /\ Present(objects[note_id]))
                /\ response # NULL => Val(response).id = note_id
    /\ Returned("get_folders")
          => /\ ListsExactly(PresentFolders)
             /\ \A i \in 1..Len(response) :
                   response[i].note_count =
                       Cardinality(PresentNotes(Some(response[i].id)))

\* get_folders has returned the folder, marked 0, with a count of one: of
\* its two notes one is marked 2 and the other is not marked.
C3_Witness ==
    /\ Returned("get_folders")
    /\ objects[1].ZMARKEDFORDELETION = Some(0)
    /\ Len(response) = 1
    /\ response[1].note_count = 1
    /\ \E a, b \in NotePks :
          /\ objects[a].ZMARKEDFORDELETION = Some(2)
          /\ objects[a].ZTITLE1 # NULL
          /\ objects[a].ZFOLDER = Some(1)
          /\ objects[b].ZMARKEDFORDELETION = NULL
          /\ objects[b].ZTITLE1 # NULL
          /\ objects[b].ZFOLDER = Some(1)

\* No U+2028, no U+FFFC, no whitespace at either end.
Sanitized(s) ==
    /\ \A k \in 1..Len(s) : s[k] \notin {LINE_SEPARATOR, OBJECT_REPLACEMENT}
    /\ s # <<>> => ~IsSpace(s[1]) /\ ~IsSpace(s[Len(s)])

\* C7: the body of the Note get_note returns is the empty string or fully
\* sanitized text (no U+2028, no U+FFFC, no leading or trailing
\* whitespace), whichever extractor produced it; the bodies get_notes
\* returns are all the empty string.
C7_BodySanitized ==
    /\ (Returned("get_note") /\ response # NULL)
          => Sanitized(Val(response).body)
    /\ Returned("get_notes")
          => \A i \in 1..Len(response) : response[i].body = <<>>

\* get_note has returned a body that is not empty, from the fallback scanner,
\* for a buffer that held U+FFFC and U+2028.
C7_Witness ==
    /\ Returned("get_note")
    /\ response # NULL
    /\ Val(response).body # <<>>
    /\ via = "fallback"
    /\ \E i, k \in 1..Len(BufferText) :
          /\ BufferText[i] = OBJECT_REPLACEMENT
          /\ BufferText[k] = LINE_SEPARATOR

(***************************************************************************)
(* Properties of the writer.                                               *)
(***************************************************************************)
\* The tasks whose osascript invocation is under way: being spawned, or
\* spawned and not yet through communicate().
InFlight == {t \in DOMAIN tpc : tpc[t] \in {"spawning", "communicating"}}

\* C4: at most one osascript invocation is in flight at any time, for any
\* interleaving of concurrent create_note, edit_note and delete_note calls:
\* no second subprocess is started before the previous one has been spawned
\* and has finished communicating; the invocation in flight holds the lock.
C4_OneInFlight ==
    /\ Cardinality(InFlight) <= 1
    /\ InFlight # {} => _locked

\* The second call's osascript runs while the third call waits for the lock
\* the first call has held and released.
C4_Witness ==
    /\ tpc[1] \in {"done", "raised"}
    /\ script[1] # NULL
    /\ tpc[2] = "communicating"
    /\ tpc[3] = "waiting"

StartsWith(s, prefix) ==
    Len(s) >= Len(prefix) /\ SubSeq(s, 1, Len(prefix)) = prefix

\* In this step call t of edit_note or delete_note goes through
\* _note_id_from_pk: it gets its id, or get_store_uuid raises.
AsksStoreUuid(t) ==
    tpc[t] = "idle" /\ (coredata_id'[t] # NULL \/ tpc'[t] = "raised")

\* In this step call t is given the store identifier uuid.
IsGiven(t, uuid) ==
    /\ coredata_id'[t] # NULL
    /\ StartsWith(Val(coredata_id'[t]), CoreDataPrefix \o uuid \o NotePath)

\* C10: across any sequence of get_store_uuid calls made by edit_note and
\* delete_note through _note_id_from_pk, the store identifier is read
\* successfully at most once: once a call has returned a value, the cached
\* value never changes, every later call returns it and none opens the data
\* source; while nothing is cached every call opens the data source, a call
\* that finds no metadata row raises and leaves the cache unset, and a call
\* that finds a row caches and returns what the row holds.
C10_StoreUuidCached ==
    [][\A t \in DOMAIN tpc :
          /\ _store_uuid # NULL
                => /\ _store_uuid' = _store_uuid
                   /\ opens' = opens
                   /\ AsksStoreUuid(t) => IsGiven(t, Val(_store_uuid))
          /\ (_store_uuid = NULL /\ AsksStoreUuid(t))
                => /\ opens' = opens + 1
                   /\ IF z_metadata = NULL
                      THEN tpc'[t] = "raised" /\ _store_uuid' = NULL
                      ELSE /\ _store_uuid' = Val(z_metadata)
                           /\ _store_uuid' # NULL
                                 => IsGiven(t, Val(_store_uuid'))]_vars

\* The first call found no metadata row and raised, the second read "A", the
\* third was given the same id as the second without a read, although the
\* store holds "B" by now.
C10_Witness ==
    /\ tpc[1] = "raised"
    /\ script[1] = NULL
    /\ opens = 2
    /\ _store_uuid = Some(<<65>>)
    /\ z_metadata = Some(Some(<<66>>))
    /\ coredata_id[2] # NULL
    /\ coredata_id[3] = coredata_id[2]

\* In this step the invocation of task t ends: its osascript exits with
\* status 0 or not, or could not be spawned.
InvocationEnds(t) == t \in InFlight /\ tpc'[t] \in {"done", "raised"}

\* C11: the automation lock is released whenever an invocation ends (exit
\* status 0, exit status non-zero with RuntimeError raised to the caller, or
\* failure to spawn), and the first waiter's future is set; hence, every
\* spawned subprocess terminating, no call waits for the lock for ever (a
\* waiting call can only go on by acquiring it) and no call holds it for
\* ever.
C11_LockReleased ==
    /\ [][\A t \in DOMAIN tpc :
             /\ InvocationEnds(t)
                   => /\ ~_locked'
                      /\ _waiters # <<>> => Head(_waiters) \in woken'
             /\ (tpc[t] = "waiting" /\ tpc'[t] # "waiting")
                   => tpc'[t] = "spawning" /\ _locked']_vars
    /\ \A t \in Tasks : []<>(tpc[t] # "waiting")
    /\ \A t \in Tasks : []<>(t \notin InFlight)

\* The first call could not be spawned; it has left the lock free and set
\* the future of the second call, which waits, with the third behind it.
C11_Witness ==
    /\ tpc[1] = "raised"
    /\ script[1] # NULL
    /\ ~_locked
    /\ _waiters = <<2, 3>>
    /\ woken = {2}
    /\ tpc[2] = "waiting"

====
